---- MODULE Spec2Model ----
(***************************************************************************)
(* Validation of the YAML metadata block of a dataset card, as done by     *)
(* src/datasets/utils/metadata.py: the tag validators, the escape-hatch    *)
(* partition, the front-matter extraction and DatasetMetadata's            *)
(* construction (__init__ followed by __post_init__).                      *)
(***************************************************************************)
EXTENDS Integers, Sequences, FiniteSets, TLC

VARIABLES
    known,      \* the module-level reference vocabularies (metadata.py 31-35)
    call,       \* one call of a module-level function: its name, argument, result
    pc,         \* per construction: the statement of __init__/__post_init__ reached
    input,      \* per construction: the keyword mapping handed to cls(**mapping)
    self,       \* per construction: the nine attributes of the instance
    errors,     \* per construction: the *_errors locals of __post_init__
    raised,     \* per construction: the exception that ended it, or None
    warned,     \* per construction: the values logger.warning reported as escaping
    rebuilds    \* per construction: how often the record was fed back to cls(**...)

vars == <<known, call, pc, input, self, errors, raised, warned, rebuilds>>

\* ------------------------------------------------------------------------
\* Bounds of the model
\* ------------------------------------------------------------------------
\* longest list handed to a validator called on its own
MaxArgs == 3
\* longest document, in lines, handed to from_readme
MaxLines == 3
\* longest list a field of a mapping holds
MaxLen == 2
\* how many fields of a mapping differ from the baseline card
MaxVaried == 2
\* how often a finished record is validated again
MaxRebuilds == 1

\* ------------------------------------------------------------------------
\* Python values: a str is the sequence of its characters
\* ------------------------------------------------------------------------
Str(chars) == [type |-> "str", v |-> chars]
IntVal == [type |-> "int", v |-> <<"3">>]
List(items) == [type |-> "list", v |-> items]
None == [type |-> "NoneType", v |-> <<>>]

isinstance_str(x) == x.type = "str"
isinstance_list(x) == x.type = "list"

\* e.startswith(prefix)
startswith(e, prefix) ==
    /\ Len(e.v) >= Len(prefix.v)
    /\ SubSeq(e.v, 1, Len(prefix.v)) = prefix.v

\* sub in e, for two strs
str_contains(sub, e) ==
    \E i \in 1..(Len(e.v) - Len(sub.v) + 1) :
        SubSeq(e.v, i, i + Len(sub.v) - 1) = sub.v

Whitespace == {" ", "\n", "\t"}

RECURSIVE lstrip(_)
lstrip(s) == IF s # <<>> /\ Head(s) \in Whitespace THEN lstrip(Tail(s)) ELSE s

RECURSIVE rstrip(_)
rstrip(s) ==
    IF s # <<>> /\ s[Len(s)] \in Whitespace
    THEN rstrip(SubSeq(s, 1, Len(s) - 1))
    ELSE s

\* line.strip()
strip(line) == Str(rstrip(lstrip(line.v)))

\* all lists of at most n items of S
Lists(S, n) == UNION {[1..k -> S] : k \in 0..n}

\* the elements of a list, as a set
Elems(s) == {s[i] : i \in 1..Len(s)}

\* ------------------------------------------------------------------------
\* Tags
\* ------------------------------------------------------------------------
found == Str(<<"f", "o", "u", "n", "d">>)
crowdsourced == Str(<<"c", "r", "o", "w", "d", "s", "o", "u", "r", "c", "e", "d">>)
expert_generated == Str(<<"e", "x", "p", "e", "r", "t", "-", "g", "e", "n", "e", "r", "a", "t", "e", "d">>)
bogus == Str(<<"b", "o", "g", "u", "s">>)
en == Str(<<"e", "n">>)
fr == Str(<<"f", "r">>)
e_ == Str(<<"e">>)
mit == Str(<<"m", "i", "t">>)
cc_other_nc == Str(<<"c", "c", "-", "o", "t", "h", "e", "r", "-", "n", "c">>)
my_other_terms == Str(<<"m", "y", "-", "o", "t", "h", "e", "r", "-", "t", "e", "r", "m", "s">>)
other_terms == Str(<<"o", "t", "h", "e", "r", "-", "t", "e", "r", "m", "s">>)
monolingual == Str(<<"m", "o", "n", "o", "l", "i", "n", "g", "u", "a", "l">>)
other == Str(<<"o", "t", "h", "e", "r">>)
other_mixed == Str(<<"o", "t", "h", "e", "r", "-", "m", "i", "x", "e", "d">>)
x_other == Str(<<"x", "-", "o", "t", "h", "e", "r">>)
n_lt_1K == Str(<<"n", "<", "1", "K">>)
n_1K_10K == Str(<<"1", "K", "<", "n", "<", "1", "0", "K">>)
huge == Str(<<"h", "u", "g", "e">>)
original == Str(<<"o", "r", "i", "g", "i", "n", "a", "l">>)
extended == Str(<<"e", "x", "t", "e", "n", "d", "e", "d">>)
extended_squad == Str(<<"e", "x", "t", "e", "n", "d", "e", "d", "|", "s", "q", "u", "a", "d">>)
derived == Str(<<"d", "e", "r", "i", "v", "e", "d">>)
extendedx == Str(<<"e", "x", "t", "e", "n", "d", "e", "d", "x">>)
text_scoring == Str(<<"t", "e", "x", "t", "-", "s", "c", "o", "r", "i", "n", "g">>)
question_answering == Str(<<"q", "u", "e", "s", "t", "i", "o", "n", "-", "a", "n", "s", "w", "e", "r", "i", "n", "g">>)
other_new == Str(<<"o", "t", "h", "e", "r", "-", "n", "e", "w">>)
my_other_cat == Str(<<"m", "y", "-", "o", "t", "h", "e", "r", "-", "c", "a", "t">>)
sts == Str(<<"s", "t", "s">>)
extractive_qa == Str(<<"e", "x", "t", "r", "a", "c", "t", "i", "v", "e", "-", "q", "a">>)
open_domain_qa == Str(<<"o", "p", "e", "n", "-", "d", "o", "m", "a", "i", "n", "-", "q", "a">>)
data_mining == Str(<<"d", "a", "t", "a", "-", "m", "i", "n", "i", "n", "g">>)
qa_other_rank == Str(<<"q", "a", "-", "o", "t", "h", "e", "r", "-", "r", "a", "n", "k">>)
other_rank == Str(<<"o", "t", "h", "e", "r", "-", "r", "a", "n", "k">>)
dash_other_dash == Str(<<"-", "o", "t", "h", "e", "r", "-">>)
extended_bar == Str(<<"e", "x", "t", "e", "n", "d", "e", "d", "|">>)
dashes == Str(<<"-", "-", "-">>)

\* ------------------------------------------------------------------------
\* The bundled resources, as load_json_resource returns them
\* ------------------------------------------------------------------------
BASE_REF_URL == "https://github.com/huggingface/datasets/tree/master/src/datasets/utils"

\* licenses.json: a mapping, of which only the keys are read
licenses_json == (mit :> "MIT License") @@ (cc_other_nc :> "CC, other, non-commercial")

\* tasks.json: task category -> {"options": task ids}
tasks_json ==
    (text_scoring :> [options |-> <<sts>>])
    @@ (question_answering :> [options |-> <<extractive_qa, open_domain_qa>>])
    @@ (other :> [options |-> <<data_mining>>])

creators_json ==
    [annotations |-> <<found, crowdsourced>>, language |-> <<found, expert_generated>>]

size_categories_json == <<n_lt_1K, n_1K_10K>>

multilingualities_json == (monolingual :> "one language") @@ (other :> "none of the above")

load_json_resource ==
    [ licenses          |-> licenses_json,
      task_ids          |-> tasks_json,
      creators          |-> creators_json,
      size_categories   |-> size_categories_json,
      multilingualities |-> multilingualities_json ]

known_licenses == known.licenses
known_task_ids == known.task_ids
known_creators == known.creators
known_size_categories == known.size_categories
known_multilingualities == known.multilingualities

known_licenses_url == <<BASE_REF_URL, "resources", "licenses.json">>
known_task_ids_url == <<BASE_REF_URL, "resources", "tasks.json">>
known_creators_url == <<BASE_REF_URL, "resources", "creators.json">>
known_size_categories_url == <<BASE_REF_URL, "resources", "size_categories.json">>
this_url == <<BASE_REF_URL, "metadata.py">>

\* the tags for which lc.get(code) returns instead of raising LanguageTagError
\* (a subtag of more than eight characters, as in expert-generated, is none)
LanguageTags == {en, fr, found}
lc_get_ok(code) == code \in LanguageTags

\* ------------------------------------------------------------------------
\* Validators
\* ------------------------------------------------------------------------
\* the error strings, kept as the values they are formatted from
not_registered(invalid_values, name, url) ==
    [type |-> "str", text |-> "are not registered tags for",
     invalid |-> invalid_values, name |-> name, url |-> url]

not_recognised(invalid_values) ==
    [type |-> "str", text |-> "are not recognised as valid language codes",
     invalid |-> invalid_values, name |-> "BCP47",
     url |-> <<"https://github.com/LuminosoInsight/langcodes">>]

has_invalid_values(invalid_values) ==
    [type |-> "str", text |-> "'source_datasets' has invalid values",
     invalid |-> invalid_values, name |-> "source_datasets", url |-> this_url]

tagset_validator(values, reference_values, name, url) ==
    LET invalid_values == SelectSeq(values, LAMBDA v : v \notin reference_values)
    IN  IF Len(invalid_values) > 0
        THEN <<<<>>, not_registered(invalid_values, name, url)>>
        ELSE <<values, None>>

\* the escape predicates: the two lambdas the escape-enabled validators pass
contains_other == "lambda e: '-other-' in e"
startswith_other == "lambda e: e.startswith('other')"

\* predicate_fn(v), for a str v
predicate_call(predicate_fn, v) ==
    IF predicate_fn = contains_other
    THEN str_contains(dash_other_dash, v)
    ELSE startswith(v, other)

\* a plausible slip: the two lists returned in the wrong order
escape_validation_swapped(values, predicate_fn) ==
    <<SelectSeq(values, LAMBDA v : ~predicate_call(predicate_fn, v)),
      SelectSeq(values, LAMBDA v : predicate_call(predicate_fn, v))>>

escape_validation_for_predicate(values, predicate_fn) ==
    LET trues == SelectSeq(values, LAMBDA v : predicate_call(predicate_fn, v))
        falses == SelectSeq(values, LAMBDA v : ~predicate_call(predicate_fn, v))
    IN  <<trues, falses>>

\* what escape_validation_for_predicate hands to logger.warning: nothing when
\* no value escapes
escape_warning(values, predicate_fn) ==
    LET trues == SelectSeq(values, LAMBDA v : predicate_call(predicate_fn, v))
    IN  IF Len(trues) > 0 THEN <<trues>> ELSE <<>>

annotations_creators_must_be_in_known_set(annotations_creators) ==
    tagset_validator(annotations_creators, Elems(known_creators.annotations),
                     "annotations", known_creators_url)

language_creators_must_be_in_known_set(language_creators) ==
    tagset_validator(language_creators, Elems(known_creators.language),
                     "annotations", known_creators_url)

language_code_must_be_recognized(languages) ==
    LET invalid_values == SelectSeq(languages, LAMBDA code : ~lc_get_ok(code))
    IN  IF Len(invalid_values) > 0
        THEN <<<<>>, not_recognised(invalid_values)>>
        ELSE <<languages, None>>

licenses_must_be_in_known_set(licenses) ==
    LET part == escape_validation_for_predicate(licenses, contains_other)
        others == part[1]
        to_validate == part[2]
        res == tagset_validator(to_validate, DOMAIN known_licenses,
                                "licenses", known_licenses_url)
    IN  <<res[1] \o others, res[2]>>

task_category_must_be_in_known_set(task_categories) ==
    LET known_set == DOMAIN known_task_ids
        part == escape_validation_for_predicate(task_categories, startswith_other)
        others == part[1]
        to_validate == part[2]
        res == tagset_validator(to_validate, known_set, "tasks_ids", known_task_ids_url)
    IN  <<res[1] \o others, res[2]>>

task_id_must_be_in_known_set(task_ids) ==
    LET known_set == UNION {Elems(known_task_ids[cat].options) : cat \in DOMAIN known_task_ids}
        part == escape_validation_for_predicate(task_ids, contains_other)
        others == part[1]
        to_validate == part[2]
        res == tagset_validator(to_validate, known_set, "tasks_ids", known_task_ids_url)
    IN  <<res[1] \o others, res[2]>>

multilinguality_must_be_in_known_set(multilinguality) ==
    LET part == escape_validation_for_predicate(multilinguality, startswith_other)
        others == part[1]
        to_validate == part[2]
        res == tagset_validator(to_validate, DOMAIN known_multilingualities,
                                "multilinguality", known_size_categories_url)
    IN  <<res[1] \o others, res[2]>>

size_categories_must_be_in_known_set(size_cats) ==
    tagset_validator(size_cats, Elems(known_size_categories),
                     "size_categories", known_size_categories_url)

\* a plausible slip: the "|" of the prefix left out
source_is_ok_any_extended(src) == src \in {original, extended} \/ startswith(src, extended)

\* the test of the loop body
source_is_ok(src) == src \in {original, extended} \/ startswith(src, extended_bar)

source_datasets_must_be_in_known_set(sources) ==
    LET invalid_values == SelectSeq(sources, LAMBDA src : ~source_is_ok(src))
    IN  IF Len(invalid_values) > 0
        THEN <<<<>>, has_invalid_values(invalid_values)>>
        ELSE <<sources, None>>

\* ------------------------------------------------------------------------
\* Front matter
\* ------------------------------------------------------------------------
IndexError == [exc |-> "IndexError", text |-> "list index out of range",
               fields |-> <<>>, detail |-> <<>>]

no_yaml_block == [exc |-> "TypeError", text |-> "did not find a yaml block",
                  fields |-> <<>>, detail |-> <<>>]

\* content[1:].index("---"), counted in content (1-based): the first line after
\* the first that is "---"
next_dashes(content) ==
    CHOOSE i \in 2..Len(content) :
        /\ content[i] = dashes
        /\ \A j \in 2..(i - 1) : content[j] # dashes

\* dict_from_readme up to the YAML parser: the exception it raises, or the
\* lines it joins and hands to yaml.safe_load, or None
dict_from_readme(f) ==
    LET content == [i \in 1..Len(f) |-> strip(f[i])]
    IN  IF Len(content) = 0
        THEN [raised |-> IndexError, ret |-> None]
        ELSE IF content[1] = dashes /\ \E i \in 2..Len(content) : content[i] = dashes
             THEN [raised |-> None,
                   ret |-> [type |-> "dict",
                            v |-> SubSeq(content, 2, next_dashes(content) - 1)]]
             ELSE [raised |-> None, ret |-> None]

\* from_readme up to the construction: the exception raised before it, or the
\* parsed block handed to cls(**metadata_dict)
from_readme(f) ==
    LET r == dict_from_readme(f)
    IN  IF r.raised # None
        THEN [raised |-> r.raised, cls |-> None]
        ELSE IF r.ret # None
             THEN [raised |-> None, cls |-> r.ret]
             ELSE [raised |-> no_yaml_block, cls |-> None]

\* ------------------------------------------------------------------------
\* Calls of the module-level functions on their own
\* ------------------------------------------------------------------------
Idle == [fn |-> "idle", arg |-> <<>>, ret |-> <<>>]

line_dashes == Str(<<"-", "-", "-", "\n">>)
line_dashes_indented == Str(<<" ", "-", "-", "-", " ", "\n">>)
line_key == Str(<<"k", ":", "\n">>)
line_blank == Str(<<"\n">>)
Lines == {line_dashes, line_dashes_indented, line_key, line_blank}

ArgUniverse(fn) ==
    CASE fn = "source_datasets" -> {original, extended, extended_squad, derived, extendedx}
      [] fn = "licenses" -> {mit, cc_other_nc, my_other_terms, other_terms, bogus}
      [] fn = "task_categories" -> {text_scoring, other, other_new, my_other_cat}
      [] fn = "task_ids" -> {sts, extractive_qa, qa_other_rank, other_rank}
      [] fn = "multilinguality" -> {monolingual, other, other_mixed, x_other}

Procs == {1, 2}
NoProcess == [p \in Procs |-> <<>>]

FnFrame == UNCHANGED <<known, pc, input, self, errors, raised, warned, rebuilds>>

call_source_datasets ==
    /\ call = Idle
    /\ \E sources \in Lists(ArgUniverse("source_datasets"), MaxArgs) :
           call' = [fn |-> "source_datasets", arg |-> sources,
                    ret |-> source_datasets_must_be_in_known_set(sources)]
    /\ FnFrame

call_licenses ==
    /\ call = Idle
    /\ \E licenses \in Lists(ArgUniverse("licenses"), MaxArgs) :
           call' = [fn |-> "licenses", arg |-> licenses,
                    ret |-> licenses_must_be_in_known_set(licenses)]
    /\ FnFrame

call_task_categories ==
    /\ call = Idle
    /\ \E task_categories \in Lists(ArgUniverse("task_categories"), MaxArgs) :
           call' = [fn |-> "task_categories", arg |-> task_categories,
                    ret |-> task_category_must_be_in_known_set(task_categories)]
    /\ FnFrame

call_task_ids ==
    /\ call = Idle
    /\ \E task_ids \in Lists(ArgUniverse("task_ids"), MaxArgs) :
           call' = [fn |-> "task_ids", arg |-> task_ids,
                    ret |-> task_id_must_be_in_known_set(task_ids)]
    /\ FnFrame

call_multilinguality ==
    /\ call = Idle
    /\ \E multilinguality \in Lists(ArgUniverse("multilinguality"), MaxArgs) :
           call' = [fn |-> "multilinguality", arg |-> multilinguality,
                    ret |-> multilinguality_must_be_in_known_set(multilinguality)]
    /\ FnFrame

call_from_readme ==
    /\ call = Idle
    /\ \E f \in Lists(Lines, MaxLines) :
           call' = [fn |-> "from_readme", arg |-> f, ret |-> from_readme(f)]
    /\ FnFrame

InitFn ==
    /\ known = load_json_resource
    /\ call = Idle
    /\ pc = [p \in Procs |-> "absent"]
    /\ input = NoProcess
    /\ self = NoProcess
    /\ errors = NoProcess
    /\ raised = [p \in Procs |-> None]
    /\ warned = NoProcess
    /\ rebuilds = [p \in Procs |-> 0]

NextFn ==
    \/ call_source_datasets
    \/ call_licenses
    \/ call_task_categories
    \/ call_task_ids
    \/ call_multilinguality
    \/ call_from_readme

SpecFn == InitFn /\ [][NextFn]_vars

\* ------------------------------------------------------------------------
\* Properties of the functions called on their own (SpecFn)
\* ------------------------------------------------------------------------
\* the letters a value must show, read off the specification's table
HasPrefix(e, letters) ==
    /\ Len(e.v) >= Len(letters)
    /\ \A k \in 1..Len(letters) : e.v[k] = letters[k]

HasInfix(e, letters) ==
    \E i \in 0..(Len(e.v) - Len(letters)) :
        \A k \in 1..Len(letters) : e.v[i + k] = letters[k]

MayBeSource(e) ==
    \/ e.v = <<"o", "r", "i", "g", "i", "n", "a", "l">>
    \/ e.v = <<"e", "x", "t", "e", "n", "d", "e", "d">>
    \/ HasPrefix(e, <<"e", "x", "t", "e", "n", "d", "e", "d", "|">>)

\* C7: source_datasets_must_be_in_known_set returns its argument and no error
\* when every element is "original", "extended" or starts with "extended|";
\* otherwise it returns an empty list and an error listing every other element,
\* in order.
C7_SourceDatasetsRule ==
    call.fn = "source_datasets" =>
        LET offending == SelectSeq(call.arg, LAMBDA e : ~MayBeSource(e))
        IN  IF offending = <<>>
            THEN call.ret = <<call.arg, None>>
            ELSE /\ call.ret[1] = <<>>
                 /\ call.ret[2] # None
                 /\ call.ret[2].invalid = offending

\* a rejected list with two offending elements around an accepted "extended|..."
C7_Witness ==
    /\ call.fn = "source_datasets"
    /\ Len(call.arg) = 3
    /\ ~MayBeSource(call.arg[1])
    /\ HasPrefix(call.arg[2], <<"e", "x", "t", "e", "n", "d", "e", "d", "|">>)
    /\ ~MayBeSource(call.arg[3])
    /\ call.arg[1] # call.arg[3]
    /\ call.ret[2] # None

EscapeFields == {"licenses", "task_ids", "multilinguality", "task_categories"}

Escapes(fn, e) ==
    IF fn \in {"licenses", "task_ids"}
    THEN HasInfix(e, <<"-", "o", "t", "h", "e", "r", "-">>)
    ELSE HasPrefix(e, <<"o", "t", "h", "e", "r">>)

Registry(fn) ==
    CASE fn = "licenses" -> DOMAIN licenses_json
      [] fn = "task_ids" -> {sts, extractive_qa, open_domain_qa, data_mining}
      [] fn = "multilinguality" -> DOMAIN multilingualities_json
      [] fn = "task_categories" -> DOMAIN tasks_json

Fields ==
    << "annotations_creators", "language_creators", "languages", "licenses",
       "multilinguality", "size_categories", "source_datasets", "task_categories",
       "task_ids" >>

\* the keys of the errors dict of __post_init__, in order
ErrorKeys ==
    << "annotations_creators", "language_creators", "licenses", "multilinguality",
       "size_categories", "source_datasets", "task_categories", "task_ids" >>

missing_arguments(names) ==
    [exc |-> "TypeError", text |-> "__init__() missing required positional arguments",
     fields |-> names, detail |-> <<>>]

basic_typing_error(names, basic_typing_errors) ==
    [exc |-> "TypeError", text |-> "Found fields that are not non-empty list of strings",
     fields |-> names, detail |-> basic_typing_errors]

validation_error(names, exception_msg_dict) ==
    [exc |-> "TypeError", text |-> "Could not validate the metada, found the following errors",
     fields |-> names, detail |-> exception_msg_dict]

\* "-other-" in e, for an e that is no str
not_iterable ==
    [exc |-> "TypeError", text |-> "argument of type 'int' is not iterable",
     fields |-> <<>>, detail |-> <<>>]

\* e.startswith(...), for an e that is no str
no_startswith ==
    [exc |-> "AttributeError", text |-> "'int' object has no attribute 'startswith'",
     fields |-> <<>>, detail |-> <<>>]

\* the exception a loop over values raises when its body takes strs only
loop_raises(values, exc) ==
    IF \E i \in 1..Len(values) : ~isinstance_str(values[i]) THEN exc ELSE None

\* the fields the generated __init__ finds no argument for
missing_fields(mapping) == SelectSeq(Fields, LAMBDA f : f \notin DOMAIN mapping)

\* the names of basic_typing_errors, for an instance whose attributes are attrs
ill_typed_fields(attrs) ==
    SelectSeq(Fields, LAMBDA f :
        \/ ~isinstance_list(attrs[f])
        \/ Len(attrs[f].v) = 0
        \/ ~isinstance_str(attrs[f].v[1]))

\* the names of exception_msg_dict, given the *_errors locals
failing_fields(errs) == SelectSeq(ErrorKeys, LAMBDA f : errs[f] # None)

Frame == UNCHANGED <<known, call, input, rebuilds>>

Goto(p, label) == pc' = [pc EXCEPT ![p] = label]

\* raise exc out of the construction
Raise(p, exc) ==
    /\ Goto(p, "REJECTED")
    /\ raised' = [raised EXCEPT ![p] = exc]

\* self.<field>, <field>_errors = res, with what the call logged
Assign(p, field, res, warning) ==
    /\ self' = [self EXCEPT ![p][field] = List(res[1])]
    /\ errors' = [errors EXCEPT ![p] = (field :> res[2]) @@ @]
    /\ warned' = [warned EXCEPT ![p] = @ \o warning]
    /\ UNCHANGED raised

\* the generated __init__: binds the nine keyword arguments
dataclass_init(p) ==
    /\ pc[p] = "UNVALIDATED"
    /\ IF Len(missing_fields(input[p])) > 0
       THEN /\ Raise(p, missing_arguments(missing_fields(input[p])))
            /\ UNCHANGED self
       ELSE /\ self' = [self EXCEPT ![p] = input[p]]
            /\ Goto(p, "L85")
            /\ UNCHANGED raised
    /\ UNCHANGED <<errors, warned>>
    /\ Frame

\* lines 85-91
basic_typing(p) ==
    /\ pc[p] = "L85"
    /\ LET names == ill_typed_fields(self[p])
       IN  IF Len(names) > 0
           THEN Raise(p, basic_typing_error(names, [f \in Elems(names) |-> self[p][f]]))
           ELSE Goto(p, "L93") /\ UNCHANGED raised
    /\ UNCHANGED <<self, errors, warned>>
    /\ Frame

\* line 93
validate_annotations_creators(p) ==
    /\ pc[p] = "L93"
    /\ Assign(p, "annotations_creators",
              annotations_creators_must_be_in_known_set(self[p].annotations_creators.v), <<>>)
    /\ Goto(p, "L96")
    /\ Frame

\* line 96
validate_language_creators(p) ==
    /\ pc[p] = "L96"
    /\ Assign(p, "language_creators",
              language_creators_must_be_in_known_set(self[p].language_creators.v), <<>>)
    /\ Goto(p, "L99")
    /\ Frame

\* line 99: the argument is self.language_creators
validate_languages(p) ==
    /\ pc[p] = "L99"
    /\ Assign(p, "languages",
              language_code_must_be_recognized(self[p].language_creators.v), <<>>)
    /\ Goto(p, "L100")
    /\ Frame

\* a plausible slip: the escaping licenses are entered into the shared registry
validate_licenses_registering(p) ==
    /\ pc[p] = "L100"
    /\ LET licenses == self[p].licenses.v
           others == escape_validation_for_predicate(licenses, contains_other)[1]
       IN  IF loop_raises(licenses, not_iterable) # None
           THEN Raise(p, not_iterable) /\ UNCHANGED <<self, errors, warned, known>>
           ELSE /\ Assign(p, "licenses", licenses_must_be_in_known_set(licenses),
                          escape_warning(licenses, contains_other))
                /\ Goto(p, "L101")
                /\ known' = [known EXCEPT !.licenses =
                                 @ @@ [e \in Elems(others) |-> "escaped"]]
    /\ UNCHANGED <<call, input, rebuilds>>

\* line 100
validate_licenses(p) ==
    /\ pc[p] = "L100"
    /\ LET licenses == self[p].licenses.v
       IN  IF loop_raises(licenses, not_iterable) # None
           THEN Raise(p, not_iterable) /\ UNCHANGED <<self, errors, warned>>
           ELSE /\ Assign(p, "licenses", licenses_must_be_in_known_set(licenses),
                          escape_warning(licenses, contains_other))
                /\ Goto(p, "L101")
    /\ Frame

\* line 101
validate_multilinguality(p) ==
    /\ pc[p] = "L101"
    /\ LET multilinguality == self[p].multilinguality.v
       IN  IF loop_raises(multilinguality, no_startswith) # None
           THEN Raise(p, no_startswith) /\ UNCHANGED <<self, errors, warned>>
           ELSE /\ Assign(p, "multilinguality",
                          multilinguality_must_be_in_known_set(multilinguality),
                          escape_warning(multilinguality, startswith_other))
                /\ Goto(p, "L102")
    /\ Frame

\* line 102
validate_size_categories(p) ==
    /\ pc[p] = "L102"
    /\ Assign(p, "size_categories",
              size_categories_must_be_in_known_set(self[p].size_categories.v), <<>>)
    /\ Goto(p, "L103")
    /\ Frame

\* line 103
validate_source_datasets(p) ==
    /\ pc[p] = "L103"
    /\ LET sources == self[p].source_datasets.v
       IN  IF loop_raises(sources, no_startswith) # None
           THEN Raise(p, no_startswith) /\ UNCHANGED <<self, errors, warned>>
           ELSE /\ Assign(p, "source_datasets",
                          source_datasets_must_be_in_known_set(sources), <<>>)
                /\ Goto(p, "L104")
    /\ Frame

\* line 104
validate_task_categories(p) ==
    /\ pc[p] = "L104"
    /\ LET task_categories == self[p].task_categories.v
       IN  IF loop_raises(task_categories, no_startswith) # None
           THEN Raise(p, no_startswith) /\ UNCHANGED <<self, errors, warned>>
           ELSE /\ Assign(p, "task_categories",
                          task_category_must_be_in_known_set(task_categories),
                          escape_warning(task_categories, startswith_other))
                /\ Goto(p, "L105")
    /\ Frame

\* line 105
validate_task_ids(p) ==
    /\ pc[p] = "L105"
    /\ LET task_ids == self[p].task_ids.v
       IN  IF loop_raises(task_ids, not_iterable) # None
           THEN Raise(p, not_iterable) /\ UNCHANGED <<self, errors, warned>>
           ELSE /\ Assign(p, "task_ids", task_id_must_be_in_known_set(task_ids),
                          escape_warning(task_ids, contains_other))
                /\ Goto(p, "L107")
    /\ Frame

\* lines 107-126
aggregate(p) ==
    /\ pc[p] = "L107"
    /\ LET names == failing_fields(errors[p])
       IN  IF Len(names) > 0
           THEN Raise(p, validation_error(names, [f \in Elems(names) |-> errors[p][f]]))
           ELSE Goto(p, "VALID") /\ UNCHANGED raised
    /\ UNCHANGED <<self, errors, warned>>
    /\ Frame

\* a caller feeds the attributes of a finished record to cls(**...) again
rebuild(p) ==
    /\ pc[p] = "VALID"
    /\ rebuilds[p] < MaxRebuilds
    /\ rebuilds' = [rebuilds EXCEPT ![p] = @ + 1]
    /\ input' = [input EXCEPT ![p] = self[p]]
    /\ self' = [self EXCEPT ![p] = <<>>]
    /\ errors' = [errors EXCEPT ![p] = <<>>]
    /\ Goto(p, "UNVALIDATED")
    /\ UNCHANGED <<known, call, raised, warned>>

Next ==
    \E p \in Procs :
        \/ dataclass_init(p)
        \/ basic_typing(p)
        \/ validate_annotations_creators(p)
        \/ validate_language_creators(p)
        \/ validate_languages(p)
        \/ validate_licenses(p)
        \/ validate_multilinguality(p)
        \/ validate_size_categories(p)
        \/ validate_source_datasets(p)
        \/ validate_task_categories(p)
        \/ validate_task_ids(p)
        \/ aggregate(p)
        \/ rebuild(p)

\* ------------------------------------------------------------------------
\* The mappings handed to cls(**mapping)
\* ------------------------------------------------------------------------
\* the elements a field's list is drawn from: registered, escaping, neither, no str
Universe(f) ==
    CASE f = "annotations_creators" -> {found, bogus, IntVal}
      [] f = "language_creators" -> {found, expert_generated, bogus}
      [] f = "languages" -> {en, e_, IntVal}
      [] f = "licenses" -> {mit, my_other_terms, other_terms, IntVal}
      [] f = "multilinguality" -> {monolingual, other_mixed, x_other, IntVal}
      [] f = "size_categories" -> {n_lt_1K, huge, IntVal}
      [] f = "source_datasets" -> {original, extended_squad, derived, IntVal}
      [] f = "task_categories" -> {text_scoring, other_new, my_other_cat}
      [] f = "task_ids" -> {sts, qa_other_rank, other_rank}

Missing == [type |-> "missing", v |-> <<>>]

\* what a card may give for a field: a list, a bare string, or nothing
Options(f) == {List(s) : s \in Lists(Universe(f), MaxLen)} \cup {mit, Missing}

\* a card every field of which is registered
Baseline ==
    [ annotations_creators |-> List(<<found>>),
      language_creators    |-> List(<<found>>),
      languages            |-> List(<<en>>),
      licenses             |-> List(<<mit>>),
      multilinguality      |-> List(<<monolingual>>),
      size_categories      |-> List(<<n_lt_1K>>),
      source_datasets      |-> List(<<original>>),
      task_categories      |-> List(<<text_scoring>>),
      task_ids             |-> List(<<sts>>) ]

RECURSIVE Varied(_)
Varied(k) ==
    IF k = 0
    THEN {Baseline}
    ELSE UNION { UNION { {[a EXCEPT ![f] = o] : o \in Options(f)} : f \in Elems(Fields) }
                 : a \in Varied(k - 1) }

\* the keyword mapping of a card: its missing fields are no keys
Mapping(a) == [f \in {g \in Elems(Fields) : a[g] # Missing} |-> a[f]]

\* the mappings at most n fields of which differ from the baseline card
Mappings(n) == {Mapping(a) : a \in Varied(n)}

Init ==
    /\ known = load_json_resource
    /\ call = Idle
    /\ pc = [p \in Procs |-> IF p = 1 THEN "UNVALIDATED" ELSE "absent"]
    /\ \E m \in Mappings(MaxVaried) : input = [p \in Procs |-> IF p = 1 THEN m ELSE <<>>]
    /\ self = NoProcess
    /\ errors = NoProcess
    /\ raised = [p \in Procs |-> None]
    /\ warned = NoProcess
    /\ rebuilds = [p \in Procs |-> 0]

Spec == Init /\ [][Next]_vars

\* ------------------------------------------------------------------------
\* One construction run on its own, from the call to its end
\* ------------------------------------------------------------------------
Rejected(exc) == [status |-> "REJECTED", record |-> None, raised |-> exc]
Valid(attrs) == [status |-> "VALID", record |-> attrs, raised |-> None]

\* lines 93-126, for attributes that passed lines 85-91
post_init_from_93(attrs) ==
    LET ac == annotations_creators_must_be_in_known_set(attrs.annotations_creators.v)
        lcr == language_creators_must_be_in_known_set(attrs.language_creators.v)
        lang == language_code_must_be_recognized(lcr[1])
        lic == licenses_must_be_in_known_set(attrs.licenses.v)
        mul == multilinguality_must_be_in_known_set(attrs.multilinguality.v)
        siz == size_categories_must_be_in_known_set(attrs.size_categories.v)
        src == source_datasets_must_be_in_known_set(attrs.source_datasets.v)
        cat == task_category_must_be_in_known_set(attrs.task_categories.v)
        tid == task_id_must_be_in_known_set(attrs.task_ids.v)
        exceptions ==
            SelectSeq(<< loop_raises(attrs.licenses.v, not_iterable),
                         loop_raises(attrs.multilinguality.v, no_startswith),
                         loop_raises(attrs.source_datasets.v, no_startswith),
                         loop_raises(attrs.task_categories.v, no_startswith),
                         loop_raises(attrs.task_ids.v, not_iterable) >>,
                      LAMBDA x : x # None)
        errs == [ annotations_creators |-> ac[2], language_creators |-> lcr[2],
                  licenses |-> lic[2], multilinguality |-> mul[2],
                  size_categories |-> siz[2], source_datasets |-> src[2],
                  task_categories |-> cat[2], task_ids |-> tid[2] ]
        names == failing_fields(errs)
    IN  IF exceptions # <<>>
        THEN Rejected(Head(exceptions))
        ELSE IF Len(names) > 0
             THEN Rejected(validation_error(names, [f \in Elems(names) |-> errs[f]]))
             ELSE Valid([ annotations_creators |-> List(ac[1]),
                          language_creators    |-> List(lcr[1]),
                          languages            |-> List(lang[1]),
                          licenses             |-> List(lic[1]),
                          multilinguality      |-> List(mul[1]),
                          size_categories      |-> List(siz[1]),
                          source_datasets      |-> List(src[1]),
                          task_categories      |-> List(cat[1]),
                          task_ids             |-> List(tid[1]) ])

\* cls(**mapping)
cls(mapping) ==
    IF Len(missing_fields(mapping)) > 0
    THEN Rejected(missing_arguments(missing_fields(mapping)))
    ELSE LET names == ill_typed_fields(mapping)
         IN  IF Len(names) > 0
             THEN Rejected(basic_typing_error(names, [f \in Elems(names) |-> mapping[f]]))
             ELSE post_init_from_93(mapping)

\* ------------------------------------------------------------------------
\* Two constructions at once
\* ------------------------------------------------------------------------
\* cards that between them take every path through the construction
Cards ==
    { Baseline,
      [Baseline EXCEPT !.licenses = List(<<my_other_terms, mit>>)],
      [Baseline EXCEPT !.language_creators = List(<<expert_generated>>)],
      [Baseline EXCEPT !.licenses = List(<<other_terms>>),
                       !.size_categories = List(<<huge>>)],
      [Baseline EXCEPT !.languages = List(<<>>)],
      [Baseline EXCEPT !.task_ids = Missing],
      [Baseline EXCEPT !.multilinguality = List(<<monolingual, IntVal>>)] }

InitConc ==
    /\ known = load_json_resource
    /\ call = Idle
    /\ pc = [p \in Procs |-> "UNVALIDATED"]
    /\ input \in [Procs -> {Mapping(a) : a \in Cards}]
    /\ self = NoProcess
    /\ errors = NoProcess
    /\ raised = [p \in Procs |-> None]
    /\ warned = NoProcess
    /\ rebuilds = [p \in Procs |-> 0]

SpecConc == InitConc /\ [][Next]_vars

\* ------------------------------------------------------------------------
\* Properties
\* ------------------------------------------------------------------------
Running == {p \in Procs : pc[p] # "absent"}
Done(p) == pc[p] \in {"VALID", "REJECTED"}

\* what a finished construction leaves its caller with
Outcome(p) ==
    IF pc[p] = "VALID" THEN Valid(self[p]) ELSE Rejected(raised[p])

\* C9: with two constructions interleaved statement by statement the reference
\* vocabularies stay as loaded, and each construction ends as it does when it
\* is run alone on its mapping.
C9_NoSharedState ==
    /\ known = load_json_resource
    /\ \A p \in Procs : Done(p) => Outcome(p) = cls(input[p])

\* both constructions finished, one with a reordered record and one rejected
\* for two fields
C9_Witness ==
    /\ pc[1] = "VALID" /\ rebuilds[1] = 0
    /\ self[1].licenses = List(<<mit, my_other_terms>>)
    /\ pc[2] = "REJECTED"
    /\ raised[2].fields = <<"licenses", "size_categories">>

\* the specification's table: the values a field takes
Accepts(f, e) ==
    /\ isinstance_str(e)
    /\ CASE f = "annotations_creators" -> e \in Elems(creators_json.annotations)
         [] f = "language_creators" -> e \in Elems(creators_json.language)
         [] f = "languages" -> e \in LanguageTags
         [] f = "licenses" -> e \in Registry(f) \/ Escapes(f, e)
         [] f = "multilinguality" -> e \in Registry(f) \/ Escapes(f, e)
         [] f = "size_categories" -> e \in Elems(size_categories_json)
         [] f = "source_datasets" -> MayBeSource(e)
         [] f = "task_categories" -> e \in Registry(f) \/ Escapes(f, e)
         [] f = "task_ids" -> e \in Registry(f) \/ Escapes(f, e)

FieldSet == Elems(Fields)

\* all nine fields given
Complete(m) == DOMAIN m = FieldSet

\* all nine fields given, each a non-empty list of strings
WellTyped(m) ==
    /\ Complete(m)
    /\ \A f \in FieldSet :
        /\ isinstance_list(m[f])
        /\ Len(m[f].v) > 0
        /\ \A e \in Elems(m[f].v) : isinstance_str(e)

\* the fields holding a value the table does not accept
BadFields(m) == {f \in FieldSet : \E e \in Elems(m[f].v) : ~Accepts(f, e)}

\* C1 (for mappings of non-empty lists of strings): the construction fails
\* exactly when some field holds a value that is neither registered (languages:
\* recognised; source_datasets: the structural rule) nor escaping, and the keys
\* of the report are exactly those fields.
C1_FailsExactlyOnBadFields ==
    \A p \in Running :
        (Done(p) /\ WellTyped(input[p])) =>
            /\ (pc[p] = "REJECTED") <=> (BadFields(input[p]) # {})
            /\ pc[p] = "REJECTED" => Elems(raised[p].fields) = BadFields(input[p])

\* C2: every field of a VALID record is a non-empty list of strings, each
\* registered or escaping.
C2_ValidRecordWellFormed ==
    \A p \in Running :
        pc[p] = "VALID" => (WellTyped(self[p]) /\ BadFields(self[p]) = {})

\* C3: a mapping all of whose values are registered or escaping is accepted,
\* and each field of the record holds the set of values given for it.
C3_AcceptedValuesKept ==
    \A p \in Running :
        (Done(p) /\ WellTyped(input[p]) /\ BadFields(input[p]) = {}) =>
            /\ pc[p] = "VALID"
            /\ \A f \in FieldSet : Elems(self[p][f].v) = Elems(input[p][f].v)

\* C4: the language-tag checker runs on the language_creators given: when it
\* takes them all the record's languages is that list, and when it rejects any
\* the construction is REJECTED with a report listing all rejected codes.
C4_LanguagesFromCreators ==
    \A p \in Running :
        (Done(p) /\ WellTyped(input[p])) =>
            LET codes == input[p].language_creators.v
                rejected == SelectSeq(codes, LAMBDA c : c \notin LanguageTags)
            IN  IF rejected = <<>>
                THEN pc[p] = "VALID" => self[p].languages = List(codes)
                ELSE /\ pc[p] = "REJECTED"
                     /\ \E f \in DOMAIN raised[p].detail :
                            raised[p].detail[f].invalid = rejected

\* the fields that are no non-empty list of strings
NotListsOfStrings(m) ==
    {f \in FieldSet :
        \/ f \notin DOMAIN m
        \/ ~isinstance_list(m[f])
        \/ Len(m[f].v) = 0
        \/ \E e \in Elems(m[f].v) : ~isinstance_str(e)}

\* C5 (for mappings giving all nine fields): when some field is no list, is
\* empty or is no list of strings, the construction is rejected with the
\* structural type error, before any tag validator has returned, and the error
\* names every such field.
C5_StructuralPrecheck ==
    \A p \in Running :
        (Done(p) /\ Complete(input[p]) /\ NotListsOfStrings(input[p]) # {}) =>
            /\ pc[p] = "REJECTED"
            /\ raised[p].text = "Found fields that are not non-empty list of strings"
            /\ Elems(raised[p].fields) = NotListsOfStrings(input[p])
            /\ errors[p] = <<>>

\* the line, blanks aside, is "---"
IsDashes(line) ==
    SelectSeq(line.v, LAMBDA c : c \notin {" ", "\n"}) = <<"-", "-", "-">>

\* C6: from_readme fails with "did not find a yaml block", and nothing else, on
\* every document without a front-matter block, the empty one included; and when
\* the first line and a later one are "---", the lines strictly between the
\* first line and the next "---" are what is parsed.
C6_FrontMatter ==
    call.fn = "from_readme" =>
        LET f == call.arg
            closing == {i \in 2..Len(f) : IsDashes(f[i])}
        IN  IF Len(f) >= 1 /\ IsDashes(f[1]) /\ closing # {}
            THEN LET last == (CHOOSE i \in closing : \A j \in closing : i <= j) - 1
                 IN  /\ call.ret.raised = None
                     /\ call.ret.cls.v = [i \in 1..(last - 1) |-> strip(f[i + 1])]
            ELSE call.ret.raised = no_yaml_block

\* C10: a record built again from its own nine fields is accepted and equals
\* the first, field by field.
C10_Idempotent ==
    \A p \in Running :
        (Done(p) /\ rebuilds[p] > 0) => (pc[p] = "VALID" /\ self[p] = input[p])

====
